---- MODULE Spec2Model ----
(***************************************************************************)
(* The css selector builder of src/src/05-objects-tasks.js: class Builder  *)
(* (constructor, element, id, class, attr, pseudoClass, pseudoElement,     *)
(* combine, stringify) and the cssSelectorBuilder facade; timeSpanToString *)
(* and chainPromises of src/src/04-date-tasks.js.                          *)
(*                                                                         *)
(* A string is a sequence of one-character strings, so that concatenation  *)
(* (+=, template literals) is \o and the empty string is << >>.            *)
(***************************************************************************)
EXTENDS Integers, Sequences, FiniteSets, TLC

\* ---------------------------------------------------------------- bounds
\* number of calls made while several builders are in play
MaxCalls == 4
\* length of the accumulator while one builder is followed through a chain of
\* calls (any number of them)
MaxChainChars == 13
\* length of the array passed to chainPromises
MaxPromises == 3

\* the strings passed as `value`
Values == { <<"a">>, <<"b">> }
\* the strings passed as `value` while several builders are combined
PoolValues == { <<"a">> }
\* the strings passed as `combinator`: two css combinators and a string that
\* is none
Combinators == { <<"+">>, <<" ">>, <<"?">> }

\* ---------------------------------------------------------------- state
VARIABLES
    builders,   \* the allocated Builder objects, in allocation order
    hist,       \* per builder, a record of the calls that succeeded on it
    last,       \* the most recent call: what was called, on what, and its outcome
    calls,      \* the number of calls counted so far
    span,       \* a call of timeSpanToString: its arguments and what it returned
    chain       \* a call of chainPromises: its arguments, the promises and the
                \* microtask queue

vars == << builders, hist, last, calls, span, chain >>

\* ---------------------------------------------------------------- class Builder
error1 == "Element, id and pseudo-element should not occur more then one time inside the selector"
error2 == "Selector parts should be arranged in the following order: element, id, class, attribute, pseudo-class, pseudo-element"

\* a method either returns `this` (mutated) or throws, leaving `this` as it was
\* at the throw
Return(self) == [self |-> self, err |-> "none"]
Throw(self, message) == [self |-> self, err |-> message]

\* a constructor that starts the order number at 1
NewBuilder_OrderOne ==
    [ useElement |-> FALSE, useId |-> FALSE, usePseudoElement |-> FALSE,
      order |-> 1, value |-> << >> ]

\* constructor()
NewBuilder ==
    [ useElement |-> FALSE, useId |-> FALSE, usePseudoElement |-> FALSE,
      order |-> 0, value |-> << >> ]

\* element with its two checks in the other order
element_OrderCheckFirst(self, value) ==
    IF self.order > 1 THEN Throw(self, error2)
    ELSE IF self.useElement THEN Throw(self, error1)
    ELSE Return([self EXCEPT !.order = 1,
                             !.value = @ \o value,
                             !.useElement = TRUE])

\* element with this.order assigned before the two checks
element_OrderFirst(self, value) ==
    IF self.useElement THEN Throw([self EXCEPT !.order = 1], error1)
    ELSE IF self.order > 1 THEN Throw([self EXCEPT !.order = 1], error2)
    ELSE Return([self EXCEPT !.order = 1,
                             !.value = @ \o value,
                             !.useElement = TRUE])

element(self, value) ==
    IF self.useElement THEN Throw(self, error1)
    ELSE IF self.order > 1 THEN Throw(self, error2)
    ELSE Return([self EXCEPT !.order = 1,
                             !.value = @ \o value,
                             !.useElement = TRUE])

\* id without the useId check
id_NoDuplicateCheck(self, value) ==
    IF self.order > 2 THEN Throw(self, error2)
    ELSE Return([self EXCEPT !.order = 2,
                             !.value = @ \o (<<"#">> \o value),
                             !.useId = TRUE])

\* id with the order check of class
id_OrderOffByOne(self, value) ==
    IF self.useId THEN Throw(self, error1)
    ELSE IF self.order > 3 THEN Throw(self, error2)
    ELSE Return([self EXCEPT !.order = 2,
                             !.value = @ \o (<<"#">> \o value),
                             !.useId = TRUE])

id(self, value) ==
    IF self.useId THEN Throw(self, error1)
    ELSE IF self.order > 2 THEN Throw(self, error2)
    ELSE Return([self EXCEPT !.order = 2,
                             !.value = @ \o (<<"#">> \o value),
                             !.useId = TRUE])

\* class without the order check
class_NoOrderCheck(self, value) ==
    Return([self EXCEPT !.order = 3,
                        !.value = @ \o (<<".">> \o value)])

\* class refused once the order number has reached 3
class_StrictOrder(self, value) ==
    IF self.order >= 3 THEN Throw(self, error2)
    ELSE Return([self EXCEPT !.order = 3,
                             !.value = @ \o (<<".">> \o value)])

class(self, value) ==
    IF self.order > 3 THEN Throw(self, error2)
    ELSE Return([self EXCEPT !.order = 3,
                             !.value = @ \o (<<".">> \o value)])

\* attr without the closing bracket
attr_NoClose(self, value) ==
    IF self.order > 4 THEN Throw(self, error2)
    ELSE Return([self EXCEPT !.order = 4,
                             !.value = @ \o (<<"[">> \o value)])

attr(self, value) ==
    IF self.order > 4 THEN Throw(self, error2)
    ELSE Return([self EXCEPT !.order = 4,
                             !.value = @ \o (<<"[">> \o value \o <<"]">>)])

\* pseudoClass with the order check of pseudoElement
pseudoClass_OrderOffByOne(self, value) ==
    IF self.order > 6 THEN Throw(self, error2)
    ELSE Return([self EXCEPT !.order = 5,
                             !.value = @ \o (<<":">> \o value)])

pseudoClass(self, value) ==
    IF self.order > 5 THEN Throw(self, error2)
    ELSE Return([self EXCEPT !.order = 5,
                             !.value = @ \o (<<":">> \o value)])

\* pseudoElement that does not set its flag
pseudoElement_NoFlag(self, value) ==
    IF self.usePseudoElement THEN Throw(self, error1)
    ELSE IF self.order > 6 THEN Throw(self, error2)
    ELSE Return([self EXCEPT !.order = 6,
                             !.value = @ \o (<<":", ":">> \o value)])

pseudoElement(self, value) ==
    IF self.usePseudoElement THEN Throw(self, error1)
    ELSE IF self.order > 6 THEN Throw(self, error2)
    ELSE Return([self EXCEPT !.order = 6,
                             !.value = @ \o (<<":", ":">> \o value),
                             !.usePseudoElement = TRUE])

\* combine without the spaces around the combinator
combine_NoSpaces(self, selector1, combinator, selector2) ==
    Return([self EXCEPT !.value = @ \o (selector1.value \o combinator
                                        \o selector2.value)])

\* combine that applies the ordering rule to what follows a pseudo-element
combine_ChecksOperands(self, selector1, combinator, selector2) ==
    IF selector1.usePseudoElement THEN Throw(self, error2)
    ELSE Return([self EXCEPT !.value = @ \o (selector1.value \o <<" ">>
                                             \o combinator \o <<" ">>
                                             \o selector2.value)])

\* combine that takes over the order number and flags of its right operand
combine_InheritsStage(self, selector1, combinator, selector2) ==
    Return([selector2 EXCEPT !.value = self.value
                                \o (selector1.value \o <<" ">> \o combinator
                                    \o <<" ">> \o selector2.value)])

\* combine(selector1, combinator, selector2): reads the two operands' value
combine(self, selector1, combinator, selector2) ==
    Return([self EXCEPT !.value = @ \o (selector1.value \o <<" ">> \o combinator
                                        \o <<" ">> \o selector2.value)])

\* stringify that leaves this.value in place
stringify_KeepsValue(self) ==
    [ self |-> self, ret |-> self.value ]

\* stringify that starts the builder over
stringify_ResetsAll(self) ==
    [ self |-> NewBuilder, ret |-> self.value ]

\* stringify(): the returned string and `this` afterwards
stringify(self) ==
    [ self |-> [self EXCEPT !.value = << >>], ret |-> self.value ]

\* ---------------------------------------------------------------- bookkeeping
Methods == { "element", "id", "class", "attr", "pseudoClass", "pseudoElement" }
OnceOnly == { "element", "id", "pseudoElement" }

\* position of a category in element, id, class, attribute, pseudo-class,
\* pseudo-element
Ordinal(cat) ==
    CASE cat = "element" -> 1
      [] cat = "id" -> 2
      [] cat = "class" -> 3
      [] cat = "attr" -> 4
      [] cat = "pseudoClass" -> 5
      [] cat = "pseudoElement" -> 6

\* what is recorded about the calls that succeeded on a builder:
\*   parts     what went into it since its last stringify, in order
\*   rendered  stringify was called on it
\*   once      how often each once-only category went into it since construction
\*   top       the highest ordinal that went into it since construction
NewHist ==
    [ parts |-> << >>, rendered |-> FALSE, once |-> [element |-> 0, id |-> 0, pseudoElement |-> 0],
      top |-> 0 ]

Appended(h, cat, v) ==
    [h EXCEPT !.parts = Append(@, [cat |-> cat, v |-> v]),
              !.once = IF cat \in OnceOnly THEN [@ EXCEPT ![cat] = @ + 1] ELSE @,
              !.top = IF Ordinal(cat) > @ THEN Ordinal(cat) ELSE @]

NoCall ==
    [ op |-> "none", facade |-> FALSE, b |-> 0, v |-> << >>, err |-> "none",
      ret |-> << >>, pre |-> NewBuilder, preHist |-> NewHist, again |-> FALSE,
      left |-> 0, right |-> 0, leftPre |-> NewBuilder, rightPre |-> NewBuilder,
      operand |-> FALSE, held |-> << >> ]

\* no call of timeSpanToString
NoSpan == [ pc |-> "idle", startDate |-> 0, endDate |-> 0, str |-> << >> ]

\* no builder constructed, nothing called
NoBuilders ==
    /\ builders = << >>
    /\ hist = << >>
    /\ last = NoCall
    /\ calls = 0

\* a promise: pending, or settled with a value (fulfilled) or without one that
\* matters (rejected)
Pending == [ state |-> "pending", value |-> 0 ]
Fulfilled(v) == [ state |-> "fulfilled", value |-> v ]
Rejected == [ state |-> "rejected", value |-> 0 ]

\* no call of chainPromises
NoChain ==
    [ pc |-> "idle", array |-> << >>, action |-> "none", result |-> << >>,
      jobs |-> << >>, returned |-> Pending ]

Init ==
    /\ NoBuilders
    /\ span = NoSpan
    /\ chain = NoChain

\* b.<op>(v) on the allocated builder b, r being what the method did
MethodCall(b, op, v, r) ==
    /\ builders' = [builders EXCEPT ![b] = r.self]
    /\ hist' = IF r.err = "none"
               THEN [hist EXCEPT ![b] = Appended(@, op, v)]
               ELSE hist
    /\ last' = [NoCall EXCEPT !.op = op, !.b = b, !.v = v, !.err = r.err,
                              !.pre = builders[b], !.preHist = hist[b]]

\* cssSelectorBuilder.<op>(v): new Builder().<op>(v); the new object reaches
\* the caller only if the method returns it
FacadeCall(op, v, r) ==
    /\ IF r.err = "none"
       THEN /\ builders' = Append(builders, r.self)
            /\ hist' = Append(hist, Appended(NewHist, op, v))
       ELSE UNCHANGED << builders, hist >>
    /\ last' = [NoCall EXCEPT !.op = op, !.facade = TRUE,
                              !.b = IF r.err = "none" THEN Len(builders') ELSE 0,
                              !.v = v, !.err = r.err]

\* ---------------------------------------------------------------- calls on a builder
Element(V) ==
    \E b \in DOMAIN builders, v \in V :
        MethodCall(b, "element", v, element(builders[b], v))

Id(V) ==
    \E b \in DOMAIN builders, v \in V :
        MethodCall(b, "id", v, id(builders[b], v))

Class(V) ==
    \E b \in DOMAIN builders, v \in V :
        MethodCall(b, "class", v, class(builders[b], v))

Attr(V) ==
    \E b \in DOMAIN builders, v \in V :
        MethodCall(b, "attr", v, attr(builders[b], v))

PseudoClass(V) ==
    \E b \in DOMAIN builders, v \in V :
        MethodCall(b, "pseudoClass", v, pseudoClass(builders[b], v))

PseudoElement(V) ==
    \E b \in DOMAIN builders, v \in V :
        MethodCall(b, "pseudoElement", v, pseudoElement(builders[b], v))

\* b was an operand of the call before this one, a combine, and the text it
\* held when that combine was called
WasOperand(b) == last.op = "combine" /\ b \in {last.left, last.right}
HeldAsOperand(b) ==
    IF b = last.left THEN last.leftPre.value ELSE last.rightPre.value

Stringify ==
    \E b \in DOMAIN builders :
        LET r == stringify(builders[b]) IN
        /\ builders' = [builders EXCEPT ![b] = r.self]
        /\ hist' = [hist EXCEPT ![b].parts = << >>, ![b].rendered = TRUE]
        /\ last' = [NoCall EXCEPT !.op = "stringify", !.b = b, !.ret = r.ret,
                                  !.pre = builders[b], !.preHist = hist[b],
                                  !.again = (last.op = "stringify" /\ last.b = b),
                                  !.operand = WasOperand(b),
                                  !.held = IF WasOperand(b) THEN HeldAsOperand(b)
                                           ELSE << >>]

\* ---------------------------------------------------------------- cssSelectorBuilder
FacadeElement(V) ==
    \E v \in V : FacadeCall("element", v, element(NewBuilder, v))

FacadeId(V) ==
    \E v \in V : FacadeCall("id", v, id(NewBuilder, v))

FacadeClass(V) ==
    \E v \in V : FacadeCall("class", v, class(NewBuilder, v))

FacadeAttr(V) ==
    \E v \in V : FacadeCall("attr", v, attr(NewBuilder, v))

FacadePseudoClass(V) ==
    \E v \in V : FacadeCall("pseudoClass", v, pseudoClass(NewBuilder, v))

FacadePseudoElement(V) ==
    \E v \in V : FacadeCall("pseudoElement", v, pseudoElement(NewBuilder, v))

\* a combine that takes its operands' text with stringify, the left one first
FacadeCombine_Renders ==
    \E s1 \in DOMAIN builders, s2 \in DOMAIN builders, c \in Combinators :
        LET l == stringify(builders[s1])
            afterLeft == [builders EXCEPT ![s1] = l.self]
            r == stringify(afterLeft[s2])
            afterRight == [afterLeft EXCEPT ![s2] = r.self]
            text == l.ret \o <<" ">> \o c \o <<" ">> \o r.ret
        IN
        /\ builders' = Append(afterRight, [NewBuilder EXCEPT !.value = text])
        /\ hist' = Append([hist EXCEPT ![s1].parts = << >>, ![s2].parts = << >>],
                          [NewHist EXCEPT !.parts =
                              hist[s1].parts
                              \o << [cat |-> "combinator", v |-> c] >>
                              \o (IF s1 = s2 THEN << >> ELSE hist[s2].parts)])
        /\ last' = [NoCall EXCEPT !.op = "combine", !.facade = TRUE,
                                  !.b = Len(builders'), !.v = c,
                                  !.left = s1, !.right = s2,
                                  !.leftPre = builders[s1],
                                  !.rightPre = builders[s2]]

\* cssSelectorBuilder.combine(s1, c, s2): new Builder().combine(s1, c, s2), the
\* one place in the repository where Builder.combine is called; s1 and s2 may be
\* the same builder
FacadeCombine ==
    \E s1 \in DOMAIN builders, s2 \in DOMAIN builders, c \in Combinators :
        LET r == combine(NewBuilder, builders[s1], c, builders[s2]) IN
        /\ IF r.err = "none"
           THEN /\ builders' = Append(builders, r.self)
                /\ hist' = Append(hist,
                               [NewHist EXCEPT !.parts =
                                   hist[s1].parts
                                   \o << [cat |-> "combinator", v |-> c] >>
                                   \o hist[s2].parts])
           ELSE UNCHANGED << builders, hist >>
        /\ last' = [NoCall EXCEPT !.op = "combine", !.facade = TRUE,
                                  !.b = IF r.err = "none" THEN Len(builders') ELSE 0,
                                  !.v = c, !.err = r.err,
                                  !.left = s1, !.right = s2,
                                  !.leftPre = builders[s1],
                                  !.rightPre = builders[s2]]

\* ---------------------------------------------------------------- specifications
\* a call among any number of builders, counted
Counted(Call) ==
    /\ calls < MaxCalls
    /\ Call
    /\ calls' = calls + 1
    /\ UNCHANGED << span, chain >>

\* any calls of the facade and of the builders it returned
Next ==
    \/ Counted(Element(PoolValues))
    \/ Counted(Id(PoolValues))
    \/ Counted(Class(PoolValues))
    \/ Counted(Attr(PoolValues))
    \/ Counted(PseudoClass(PoolValues))
    \/ Counted(PseudoElement(PoolValues))
    \/ Counted(Stringify)
    \/ Counted(FacadeElement(PoolValues))
    \/ Counted(FacadeId(PoolValues))
    \/ Counted(FacadeClass(PoolValues))
    \/ Counted(FacadeAttr(PoolValues))
    \/ Counted(FacadePseudoClass(PoolValues))
    \/ Counted(FacadePseudoElement(PoolValues))
    \/ Counted(FacadeCombine)

Spec == Init /\ [][Next]_vars

\* a call on the one builder of a chain, or the facade call that starts the chain
Chained(Call) ==
    /\ Call
    /\ Len(builders') <= 1
    /\ \A b \in DOMAIN builders' : Len(builders'[b].value) <= MaxChainChars
    /\ calls' = calls
    /\ UNCHANGED << span, chain >>

\* one builder: a facade entry call, then any calls of the six append methods
\* and of stringify on the builder it returned
NextChain ==
    \/ Chained(Element(Values))
    \/ Chained(Id(Values))
    \/ Chained(Class(Values))
    \/ Chained(Attr(Values))
    \/ Chained(PseudoClass(Values))
    \/ Chained(PseudoElement(Values))
    \/ Chained(Stringify)
    \/ Chained(FacadeElement(Values))
    \/ Chained(FacadeId(Values))
    \/ Chained(FacadeClass(Values))
    \/ Chained(FacadeAttr(Values))
    \/ Chained(FacadePseudoClass(Values))
    \/ Chained(FacadePseudoElement(Values))

SpecChain == Init /\ [][NextChain]_vars

\* ---------------------------------------------------------------- timeSpanToString
\* A Date is its time value: milliseconds on the local clock, which runs
\* without a change of offset over the dates used.
Days == 0..1
Hours == { 10, 11, 23 }
Minutes == { 0, 30, 59 }
Seconds == { 0, 20 }
Milliseconds == { 0, 250, 999 }

\* new Date(2000, 1, 1 + day, h, m, s, ms), counted from 2000-02-01 00:00
MakeDate(day, h, m, s, ms) ==
    (((day * 24 + h) * 60 + m) * 60 + s) * 1000 + ms

Dates ==
    { MakeDate(day, h, m, s, ms) :
        day \in Days, h \in Hours, m \in Minutes, s \in Seconds,
        ms \in Milliseconds }

getHours(date) == (date \div 3600000) % 24
getMinutes(date) == (date \div 60000) % 60
getSeconds(date) == (date \div 1000) % 60
getMilliseconds(date) == date % 1000

\* Math.abs
abs(x) == IF x < 0 THEN -x ELSE x

DigitChars == <<"0", "1", "2", "3", "4", "5", "6", "7", "8", "9">>

\* Number.prototype.toString of an integer >= 0
RECURSIVE toString(_)
toString(n) ==
    IF n < 10 THEN << DigitChars[n + 1] >>
    ELSE toString(n \div 10) \o << DigitChars[(n % 10) + 1] >>

\* String.prototype.padStart with a pad string of one character
RECURSIVE padStart(_, _, _)
padStart(str, targetLength, padString) ==
    IF Len(str) >= targetLength THEN str
    ELSE padStart(padString \o str, targetLength, padString)

timeSpanToString(startDate, endDate) ==
    LET HH == padStart(toString(abs(getHours(startDate) - getHours(endDate))),
                       2, <<"0">>)
        mm == padStart(toString(abs(getMinutes(startDate) - getMinutes(endDate))),
                       2, <<"0">>)
        ss == padStart(toString(abs(getSeconds(startDate) - getSeconds(endDate))),
                       2, <<"0">>)
        sss == padStart(toString(abs(getMilliseconds(startDate)
                                     - getMilliseconds(endDate))),
                        3, <<"0">>)
    IN  HH \o <<":">> \o mm \o <<":">> \o ss \o <<".">> \o sss

\* timeSpanToString is about to be called with two dates
InitSpan ==
    /\ NoBuilders
    /\ \E startDate \in Dates, endDate \in Dates :
          span = [ pc |-> "call", startDate |-> startDate, endDate |-> endDate,
                   str |-> << >> ]
    /\ chain = NoChain

TimeSpanToString ==
    /\ span.pc = "call"
    /\ span' = [span EXCEPT !.pc = "done",
                            !.str = timeSpanToString(span.startDate, span.endDate)]
    /\ UNCHANGED << builders, hist, last, calls, chain >>

NextSpan == TimeSpanToString

SpecSpan == InitSpan /\ [][NextSpan]_vars

\* ---------------------------------------------------------------- chainPromises
\* the values the promises of the array fulfil with
PromiseValues == { 1, 2 }
\* the functions passed as `action`: (a, b) => a + b and (a, b) => a - b
Actions == { "add", "sub" }

Apply(action, a, b) == IF action = "add" THEN a + b ELSE a - b

\* Array.prototype.reduce(action), no initial value, on an array that is not
\* empty
RECURSIVE reduce(_, _)
reduce(arr, action) ==
    IF Len(arr) = 1 THEN arr[1]
    ELSE Apply(action, reduce(SubSeq(arr, 1, Len(arr) - 1), action), arr[Len(arr)])

\* el.then(onFulfilled) on a promise that is settled queues its reaction job: the
\* callback for a fulfilled el, the rejection of the derived promise for a
\* rejected el; on a pending el the reaction waits for el to settle
ReactionJob(array, i) ==
    IF array[i].state = "fulfilled" THEN << [kind |-> "push", i |-> i] >>
    ELSE IF array[i].state = "rejected" THEN << [kind |-> "pass", i |-> i] >>
    ELSE << >>

\* array.map((el) => el.then(...)): the jobs queued, in array order
RECURSIVE ReactionJobs(_, _)
ReactionJobs(array, n) ==
    IF n = 0 THEN << >>
    ELSE ReactionJobs(array, n - 1) \o ReactionJob(array, n)

\* chainPromises is about to be called on an array of promises, each pending
\* or settled already
InitPromise ==
    /\ NoBuilders
    /\ span = NoSpan
    /\ \E n \in 1..MaxPromises, action \in Actions :
       \E array \in [1..n -> {Pending, Rejected}
                              \cup { Fulfilled(v) : v \in PromiseValues }] :
          chain = [NoChain EXCEPT !.pc = "call", !.array = array,
                                  !.action = action]

\* the synchronous part of chainPromises: the executor registers a reaction
\* on every el and resolves the outer promise with `result`, still empty; then
\* on the outer promise, which is fulfilled, queues the reduce callback
ChainPromises ==
    /\ chain.pc = "call"
    /\ chain' = [chain EXCEPT
                   !.pc = "called",
                   !.result = << >>,
                   !.jobs = @ \o ReactionJobs(chain.array, Len(chain.array))
                              \o << [kind |-> "reduce", i |-> 0] >>]
    /\ UNCHANGED << builders, hist, last, calls, span >>

\* a pending promise of the array is fulfilled, before the call or after it;
\* after it, its reaction job is queued
Fulfil ==
    \E i \in DOMAIN chain.array, v \in PromiseValues :
        /\ chain.array[i].state = "pending"
        /\ chain' = [chain EXCEPT
                       !.array[i] = Fulfilled(v),
                       !.jobs = IF chain.pc = "called"
                                THEN Append(@, [kind |-> "push", i |-> i])
                                ELSE @]
        /\ UNCHANGED << builders, hist, last, calls, span >>

\* a pending promise of the array is rejected
Reject ==
    \E i \in DOMAIN chain.array :
        /\ chain.array[i].state = "pending"
        /\ chain' = [chain EXCEPT
                       !.array[i] = Rejected,
                       !.jobs = IF chain.pc = "called"
                                THEN Append(@, [kind |-> "pass", i |-> i])
                                ELSE @]
        /\ UNCHANGED << builders, hist, last, calls, span >>

\* the microtask at the head of the queue: (res) => result.push(res)
RunPush ==
    /\ chain.jobs # << >>
    /\ Head(chain.jobs).kind = "push"
    /\ chain' = [chain EXCEPT
                   !.jobs = Tail(@),
                   !.result = Append(@, chain.array[Head(chain.jobs).i].value)]
    /\ UNCHANGED << builders, hist, last, calls, span >>

\* the microtask at the head of the queue: el was rejected and el.then(...) has
\* no onRejected, so the promise it returned is rejected and nothing is pushed
RunPass ==
    /\ chain.jobs # << >>
    /\ Head(chain.jobs).kind = "pass"
    /\ chain' = [chain EXCEPT !.jobs = Tail(@)]
    /\ UNCHANGED << builders, hist, last, calls, span >>

\* the microtask at the head of the queue: (res) => res.reduce(action), which
\* settles the promise chainPromises returned; reduce of an empty array throws
RunReduce ==
    /\ chain.jobs # << >>
    /\ Head(chain.jobs).kind = "reduce"
    /\ chain' = [chain EXCEPT
                   !.jobs = Tail(@),
                   !.returned = IF chain.result = << >> THEN Rejected
                                ELSE Fulfilled(reduce(chain.result, chain.action))]
    /\ UNCHANGED << builders, hist, last, calls, span >>

NextPromise ==
    \/ ChainPromises
    \/ Fulfil
    \/ Reject
    \/ RunPush
    \/ RunPass
    \/ RunReduce

SpecPromise == InitPromise /\ [][NextPromise]_vars

\* ---------------------------------------------------------------- the contract's words
\* the token a category contributes, as the contract's table gives it
Token(p) ==
    CASE p.cat = "element" -> p.v
      [] p.cat = "id" -> <<"#">> \o p.v
      [] p.cat = "class" -> <<".">> \o p.v
      [] p.cat = "attr" -> <<"[">> \o p.v \o <<"]">>
      [] p.cat = "pseudoClass" -> <<":">> \o p.v
      [] p.cat = "pseudoElement" -> <<":", ":">> \o p.v
      [] p.cat = "combinator" -> <<" ">> \o p.v \o <<" ">>

\* the tokens of ps one after the other, nothing between them
RECURSIVE Joined(_)
Joined(ps) == IF ps = << >> THEN << >> ELSE Token(Head(ps)) \o Joined(Tail(ps))

\* element, id, class*, attribute*, pseudo-class*, pseudo-element
ValidOrder(ps) ==
    /\ \A i \in DOMAIN ps : ps[i].cat \in Methods
    /\ \A i, j \in DOMAIN ps :
          i < j => /\ Ordinal(ps[i].cat) <= Ordinal(ps[j].cat)
                   /\ ps[i].cat \in OnceOnly => ps[i].cat # ps[j].cat

LastPart == [cat |-> last.op, v |-> last.v]

\* the call is one more of a once-only category that already went in
Duplicate == last.op \in OnceOnly /\ last.preHist.once[last.op] >= 1

\* ---------------------------------------------------------------- claims
\* C1: along a chain of appends that respects the order element, id, class*,
\* attribute*, pseudo-class*, pseudo-element, every append succeeds, and
\* stringify returns the formatted tokens concatenated in append order with
\* nothing between them.
C1_ValidChainConcatenates ==
    /\ (/\ last.op \in Methods
        /\ ~last.preHist.rendered
        /\ ValidOrder(Append(last.preHist.parts, LastPart)))
       => last.err = "none"
    /\ (/\ last.op = "stringify"
        /\ ~last.preHist.rendered
        /\ ValidOrder(last.preHist.parts))
       => last.ret = Joined(last.preHist.parts)

\* a chain through all six categories, with two classes, is rendered
C1_Witness ==
    /\ last.op = "stringify"
    /\ ~last.preHist.rendered
    /\ ValidOrder(last.preHist.parts)
    /\ { last.preHist.parts[i].cat : i \in DOMAIN last.preHist.parts } = Methods
    /\ last.ret = <<"a", "#", "b", ".", "a", "[", "b", "]", ":", "a", ":", ":", "b">>

\* C2: on one builder, each of element, id and pseudo-element goes in at most
\* once, and a further call of one that already went in throws error1.
C2_OnceOnly ==
    /\ \A b \in DOMAIN hist : \A c \in OnceOnly : hist[b].once[c] <= 1
    /\ Duplicate => last.err = error1

\* an id is refused as a duplicate after the builder was rendered
C2_Witness ==
    /\ last.op = "id"
    /\ Duplicate
    /\ last.preHist.rendered
    /\ last.err = error1

\* C3: an append whose ordinal is below the builder's stage, and which is no
\* duplicate, throws error2.
C3_OrderError ==
    (/\ last.op \in Methods
     /\ Ordinal(last.op) < last.pre.order
     /\ ~Duplicate)
    => last.err = error2

\* id after class
C3_Witness ==
    /\ last.op = "id"
    /\ last.pre.order = 3
    /\ ~Duplicate
    /\ last.err = error2

\* C4: an append that throws leaves the builder as it was: accumulator, stage
\* and the three flags.
C4_FailedAppendChangesNothing ==
    (last.op \in Methods /\ ~last.facade /\ last.err # "none")
    => builders[last.b] = last.pre

\* both kinds of failure on a builder that holds text
C4_Witness ==
    /\ last.op \in Methods
    /\ last.err = error2
    /\ last.pre.value # << >>
    /\ last.pre.useElement

\* C5: stringify returns the accumulator and empties it, so a second stringify
\* right after the first returns the empty string.
C5_RenderReturnsAndClears ==
    last.op = "stringify"
    => /\ last.ret = last.pre.value
       /\ builders[last.b].value = << >>
       /\ last.again => last.ret = << >>

\* the second of two renders in a row
C5_Witness ==
    /\ last.op = "stringify"
    /\ last.again
    /\ last.ret = << >>
    /\ last.preHist.top > 0

\* what combine puts together from its operands as they are at the call
Combined(c) == c.leftPre.value \o <<" ">> \o c.v \o <<" ">> \o c.rightPre.value

\* C6: the builder combine returns holds left's text, a space, the combinator,
\* a space, right's text; whatever was combined and however deeply, stringify
\* returns the texts joined with each combinator between exactly one space on
\* each side.
C6_CombineJoins ==
    /\ last.op = "combine" => builders[last.b].value = Combined(last)
    /\ last.op = "stringify" => last.ret = Joined(last.preHist.parts)

\* combine(combine(a, '+', a), ' ', a) is rendered
C6_Witness ==
    /\ last.op = "stringify"
    /\ last.ret = <<"a", " ", "+", " ", "a", " ", " ", " ", "a">>
    /\ Len(last.preHist.parts) = 5

\* C7: no call on a builder lowers its stage.
C7_StageMonotone ==
    [][\A b \in DOMAIN builders : builders'[b].order >= builders[b].order]_vars

\* an append raises the stage of a builder that was rendered before
C7_Witness ==
    /\ last.op \in Methods
    /\ last.err = "none"
    /\ last.preHist.rendered
    /\ builders[last.b].order > last.pre.order

\* C8: stringify changes the accumulator only, stage and flags stay, so the
\* at-most-once and the ordering rule go on applying after it.
C8_RenderKeepsGuards ==
    /\ last.op = "stringify"
       => /\ builders[last.b].order = last.pre.order
          /\ builders[last.b].useElement = last.pre.useElement
          /\ builders[last.b].useId = last.pre.useId
          /\ builders[last.b].usePseudoElement = last.pre.usePseudoElement
    /\ (last.op \in Methods /\ last.preHist.rendered /\ Duplicate)
       => last.err = error1
    /\ (/\ last.op \in Methods
        /\ last.preHist.rendered
        /\ ~Duplicate
        /\ Ordinal(last.op) < last.preHist.top)
       => last.err = error2

\* class, stringify, id
C8_Witness ==
    /\ last.op = "id"
    /\ last.preHist.rendered
    /\ last.pre.value = << >>
    /\ last.preHist.top = 3
    /\ last.err = error2

\* C9: class succeeds whenever stage <= 3, attr whenever stage <= 4,
\* pseudoClass whenever stage <= 5, however many went in before.
C9_Repeatable ==
    /\ (last.op = "class" /\ last.pre.order <= 3) => last.err = "none"
    /\ (last.op = "attr" /\ last.pre.order <= 4) => last.err = "none"
    /\ (last.op = "pseudoClass" /\ last.pre.order <= 5) => last.err = "none"

\* a fourth class goes in
C9_Witness ==
    /\ last.op = "class"
    /\ last.err = "none"
    /\ Len(last.preHist.parts) = 3
    /\ \A i \in DOMAIN last.preHist.parts : last.preHist.parts[i].cat = "class"

\* the builder a facade call hands out: an empty builder after the one call
Fresh(c) ==
    IF c.op = "combine"
    THEN [ useElement |-> FALSE, useId |-> FALSE, usePseudoElement |-> FALSE,
           order |-> 0, value |-> Combined(c) ]
    ELSE [ useElement |-> (c.op = "element"), useId |-> (c.op = "id"),
           usePseudoElement |-> (c.op = "pseudoElement"),
           order |-> Ordinal(c.op), value |-> Token([cat |-> c.op, v |-> c.v]) ]

\* C10: every facade call hands out a newly allocated builder in the state an
\* empty builder has after that one call, and no call changes a builder other
\* than the one it is made on.
C10_FacadeBuildsFresh ==
    [][/\ last'.facade
          => /\ last'.err = "none"
             /\ Len(builders') = Len(builders) + 1
             /\ last'.b = Len(builders')
             /\ builders'[last'.b] = Fresh(last')
       /\ \A b \in DOMAIN builders :
             b # last'.b => builders'[b] = builders[b]]_vars

\* one of two builders is rendered while the other holds its text
C10_Witness ==
    /\ Len(builders) = 2
    /\ last.op = "stringify"
    /\ last.b = 1
    /\ last.ret # << >>
    /\ builders[2].value # << >>
    /\ builders[2].order # last.pre.order

\* C13 as stated: combine takes each operand's text by rendering it, so after
\* the call the accumulators of both operands are empty.
C13_OperandsCleared ==
    last.op = "combine"
    => /\ builders[last.left].value = << >>
       /\ builders[last.right].value = << >>

\* C13, amended: combine reads each operand's accumulator and leaves it in
\* place: after the call both operands are as they were before it, and a
\* stringify of either right after the call returns the text it held.
C13_OperandsKept ==
    /\ last.op = "combine"
       => /\ builders[last.left] = last.leftPre
          /\ builders[last.right] = last.rightPre
    /\ (last.op = "stringify" /\ last.operand) => last.ret = last.held

\* the right operand of a combine of two builders that held text is rendered
C13_Witness ==
    /\ last.op = "stringify"
    /\ last.operand
    /\ last.b = 2
    /\ last.ret # << >>
    /\ builders[1].value # << >>
    /\ Len(builders) = 3

\* C14: combine never throws error1 or error2, whatever the stages and flags
\* of its operands and whatever the combinator string: it always returns a
\* builder.
C14_CombineNeverThrows ==
    last.op = "combine"
    => /\ last.err = "none"
       /\ last.b = Len(builders)

\* operands that hold an element, an id and a pseudo-element, combined with a
\* string that is no css combinator
C14_Witness ==
    /\ last.op = "combine"
    /\ last.err = "none"
    /\ last.v = <<"?">>
    /\ last.leftPre.useElement /\ last.leftPre.useId
    /\ last.leftPre.usePseudoElement
    /\ last.rightPre.useElement /\ last.rightPre.useId
    /\ last.rightPre.usePseudoElement

\* C15: when a once-only category that already went in is appended again and
\* its ordinal is below the stage, the call throws error1, not error2.
C15_DuplicateBeforeOrder ==
    (last.op \in Methods /\ Duplicate /\ Ordinal(last.op) < last.pre.order)
    => last.err = error1

\* element, id, element
C15_Witness ==
    /\ last.op = "element"
    /\ Duplicate
    /\ last.pre.order = 2
    /\ last.pre.useId
    /\ last.err = error1

\* C16 as stated: once a pseudo-element went into a builder, every later
\* append on it throws, pseudoElement with error1 and the other five with
\* error2, renders in between or not, and leaves the accumulator as it was.
C16_OthersGetOrderError ==
    (last.op \in Methods /\ last.preHist.once.pseudoElement >= 1)
    => /\ last.err = IF last.op = "pseudoElement" THEN error1 ELSE error2
       /\ builders[last.b].value = last.pre.value

\* C16, amended: once a pseudo-element went into a builder, every later append
\* on it throws, renders in between or not, and leaves the accumulator as it
\* was: error1 for pseudoElement and for an element or id that went in before,
\* error2 for every other append.
C16_ClosedAfterPseudoElement ==
    (last.op \in Methods /\ last.preHist.once.pseudoElement >= 1)
    => /\ last.err = IF Duplicate THEN error1 ELSE error2
       /\ builders[last.b].value = last.pre.value

\* a pseudo-class is refused after the pseudo-element and a render
C16_Witness ==
    /\ last.op = "pseudoClass"
    /\ last.preHist.once.pseudoElement = 1
    /\ last.preHist.rendered
    /\ last.err = error2

\* C17: the builder combine returns has order 0 and its three flags false,
\* whatever its operands' are, so the first append on it, of any category,
\* succeeds and puts its token right after the combined text.
C17_CombinedStartsOver ==
    /\ (last.op = "combine" /\ last.err = "none")
       => /\ builders[last.b].order = 0
          /\ ~builders[last.b].useElement
          /\ ~builders[last.b].useId
          /\ ~builders[last.b].usePseudoElement
    /\ (last.op \in Methods /\ ~last.facade /\ last.preHist.top = 0)
       => /\ last.err = "none"
          /\ builders[last.b].value = last.pre.value \o Token(LastPart)

\* an element goes into the combination of a builder that holds an element
C17_Witness ==
    /\ last.op = "element"
    /\ ~last.facade
    /\ last.preHist.top = 0
    /\ ~last.preHist.rendered
    /\ builders[last.b].value = <<"a", " ", "+", " ", "a", "a">>

\* C18: in every state the order number of a builder is in 0..6, useElement
\* implies order >= 1, useId implies order >= 2 and usePseudoElement holds
\* exactly when order = 6; the order check of pseudoElement never throws.
C18_FlagsFollowStage ==
    /\ \A b \in DOMAIN builders :
          /\ builders[b].order \in 0..6
          /\ builders[b].useElement => builders[b].order >= 1
          /\ builders[b].useId => builders[b].order >= 2
          /\ builders[b].usePseudoElement <=> builders[b].order = 6
    /\ last.op = "pseudoElement" => last.err # error2

\* a builder with all three flags set is tried with one more pseudo-element
C18_Witness ==
    /\ last.op = "pseudoElement"
    /\ last.err = error1
    /\ builders[last.b].order = 6
    /\ builders[last.b].useElement
    /\ builders[last.b].useId
    /\ builders[last.b].usePseudoElement

\* n written in decimal, with zeros in front up to width digits
Written(n, width) ==
    LET digits == toString(n)
    IN  [i \in 1..(width - Len(digits)) |-> "0"] \o digits

\* C12: for startDate <= endDate less than 100 hours apart, timeSpanToString
\* returns the elapsed time endDate - startDate as "HH:mm:ss.sss": its hours,
\* minutes, seconds and milliseconds, zero-padded to 2, 2, 2 and 3 digits.
C12_ElapsedTime ==
    LET elapsed == span.endDate - span.startDate IN
    (span.pc = "done" /\ elapsed >= 0 /\ elapsed < 100 * 3600000)
    => span.str = Written(elapsed \div 3600000, 2) \o <<":">>
                  \o Written((elapsed \div 60000) % 60, 2) \o <<":">>
                  \o Written((elapsed \div 1000) % 60, 2) \o <<".">>
                  \o Written(elapsed % 1000, 3)

\* the values of the promises of array that are fulfilled, in array order
RECURSIVE FulfilledValues(_)
FulfilledValues(array) ==
    IF array = << >> THEN << >>
    ELSE (IF Head(array).state = "fulfilled" THEN << Head(array).value >>
          ELSE << >>) \o FulfilledValues(Tail(array))

\* C11: the promise chainPromises returns is fulfilled with the reduction by
\* action of the values of the promises of array that fulfil, rejected ones
\* skipped, whenever they settle: once it and all of them have settled, that
\* is its value.
C11_ReducesAllFulfilled ==
    (/\ chain.pc = "called"
     /\ chain.returned.state # "pending"
     /\ \A i \in DOMAIN chain.array : chain.array[i].state # "pending"
     /\ FulfilledValues(chain.array) # << >>)
    => /\ chain.returned.state = "fulfilled"
       /\ chain.returned.value = reduce(FulfilledValues(chain.array), chain.action)

====
